---- MODULE Spec2Model ----
(***************************************************************************)
(* The article pipeline of article_utils.py: QC -> editorial fix -> final  *)
(* QC -> write (publish_articles), and the editorial fix engine called on  *)
(* its own (_editorial_fix).  The helper functions of the pipeline, called  *)
(* on their own, are a second specification (SpecHelpers).                 *)
(*                                                                         *)
(* Text.  A Python str is a sequence of atoms.  An atom is one character   *)
(* ("a", " ", ":"; a non-ASCII character is named by its code point,       *)
(* "U+00C3") or, in markup only, one lexeme that no pattern of the program *)
(* can cut in two ("<p>", "href=", "noopener", "https://").  Titles,       *)
(* excerpts and slugs are made of characters alone, so Len is len().       *)
(* The patterns of the program are translated atom by atom: \s is a        *)
(* whitespace atom, [^>] an atom without '>', and so on.                   *)
(***************************************************************************)
EXTENDS Integers, Sequences, FiniteSets, TLC

VARIABLES
  articles,        \* the batch: the list of Article objects, mutated in place
  hub_url,         \* the hub_url argument
  disk,            \* the slugs of the files in ARTICLE_DIR
  valid_urls,      \* the local valid_urls of publish_articles
  pc,              \* where the pipeline stands
  entry,           \* the batch as it was when _editorial_fix was last entered
  fix_log,         \* the log the last _editorial_fix returned
  fix_runs,        \* how many times _editorial_fix has run
  written,         \* the list handed to _write_to_disk
  result,          \* what publish_articles returned
  total_blocking,  \* the local total_blocking of publish_articles
  remaining,       \* the local remaining of publish_articles
  call             \* the last call of a helper function: its name, arguments, value

vars == <<articles, hub_url, disk, valid_urls, pc, entry, fix_log, fix_runs,
          written, result, total_blocking, remaining, call>>

(***************************************************************************)
(* Program constants                                                       *)
(***************************************************************************)
BRAND_SUFFIX == <<" ", "|", " ", "C", "u", "r", "s", "e", "d", " ", "T", "o", "u", "r", "s">>
MAX_TITLE_RAW == 50
MAX_RENDERED_TITLE == 65
MIN_TITLE == 10
MAX_EXCERPT == 160
MIN_EXCERPT == 50
MIN_WORD_COUNT_CLUSTER == 500
MIN_WORD_COUNT_PILLAR == 1200
MIN_BODY_INTERNAL_LINKS == 2
MIN_CONTINUE_READING_LINKS == 3

None == <<>>

SalemHub == <<"/", "salem-ghost-tours", "/">>
NewOrleansHub == <<"/", "new-orleans-ghost-tours", "/">>
ChicagoHub == <<"/", "chicago-ghost-tours", "/">>
DraculaHub == <<"/", "destinations", "/", "draculas-castle", "/">>

CATEGORY_HUBS ==
  [c \in {"salem-witch-trials", "new-orleans-voodoo-haunted-history",
          "chicago-haunted-history", "dracula-gothic-literature", "tour-planning"} |->
     CASE c = "salem-witch-trials" -> SalemHub
       [] c = "new-orleans-voodoo-haunted-history" -> NewOrleansHub
       [] c = "chicago-haunted-history" -> ChicagoHub
       [] c = "dracula-gothic-literature" -> DraculaHub
       [] OTHER -> None]

\* The table in the order Python iterates it (insertion order).
MOJIBAKE_MAP ==
  << << <<"U+00C3", "U+00A9">>, "U+00E9" >>,
     << <<"U+00C3", "U+00A8">>, "U+00E8" >>,
     << <<"U+00C3", "U+00A0">>, "U+00E0" >>,
     << <<"U+00C3", "U+00A2">>, "U+00E2" >>,
     << <<"U+00C3", "U+00AF">>, "U+00EF" >>,
     << <<"U+00C3", "U+00B4">>, "U+00F4" >>,
     << <<"U+00C3", "U+00BC">>, "U+00FC" >>,
     << <<"U+00C3", "U+00B1">>, "U+00F1" >>,
     << <<"U+00C3", "U+00A7">>, "U+00E7" >>,
     << <<"U+00C3", "U+00AD">>, "U+00ED" >>,
     << <<"U+00C3", "U+00AB">>, "U+00EB" >>,
     << <<"U+00C3", "U+00AE">>, "U+00EE" >>,
     << <<"U+00C3", "U+2030">>, "U+00C9" >>,
     << <<"U+00C3", "U+0089">>, "U+00C9" >>,
     << <<"U+00E2", "U+20AC", "U+201C">>, "U+2014" >>,
     << <<"U+00E2", "U+20AC", "U+2122">>, "U+2019" >>,
     << <<"U+00E2", "U+20AC", "U+0153">>, "U+201C" >>,
     << <<"U+00E2", "U+20AC", "U+00A6">>, "U+2026" >> >>

HUB_LABELS(hub) ==
  CASE hub = SalemHub -> <<"Salem Ghost Tours Hub">>
    [] hub = NewOrleansHub -> <<"New Orleans Ghost Tours Hub">>
    [] hub = ChicagoHub -> <<"Chicago Ghost Tours Hub">>
    [] hub = DraculaHub -> <<"Dracula's Castle">>
    [] OTHER -> <<"Ghost Tours Hub">>

(***************************************************************************)
(* str methods                                                             *)
(***************************************************************************)
DQ == "\""
LF == "\n"

Range(s) == {s[i] : i \in DOMAIN s}
Rep(c, n) == [i \in 1..n |-> c]

IsSpace(a) == a \in {" ", "\n", "\t"}

\* pat occurs in s at position i
MatchAt(s, i, pat) ==
  /\ i >= 1
  /\ i + Len(pat) - 1 <= Len(s)
  /\ \A k \in 1..Len(pat) : s[i + k - 1] = pat[k]

\* the least and the greatest member of a set of integers, 0 when empty
Min(S) == IF S = {} THEN 0 ELSE CHOOSE i \in S : \A j \in S : i <= j
Max(S) == IF S = {} THEN 0 ELSE 0 - Min({0 - i : i \in S})

\* the positions from `from` on where pat occurs in s
MatchSet(s, pat, from) ==
  {i \in from..(Len(s) - Len(pat) + 1) : s[i] = pat[1] /\ MatchAt(s, i, pat)}

\* pat in s
In(pat, s) ==
  \/ pat = <<>>
  \/ \E i \in 1..(Len(s) - Len(pat) + 1) : s[i] = pat[1] /\ MatchAt(s, i, pat)

\* s.find(pat) and s.rfind(pat), 1-based, 0 when absent
Find(s, pat) == Min(MatchSet(s, pat, 1))
RFind(s, pat) == Max(MatchSet(s, pat, 1))

\* s.replace(old, new) from position p on: occurrences left to right, not overlapping
RECURSIVE ReplaceFrom(_, _, _, _)
ReplaceFrom(s, p, old, new) ==
  LET i == Min(MatchSet(s, old, p))
  IN IF i = 0 THEN SubSeq(s, p, Len(s))
     ELSE SubSeq(s, p, i - 1) \o new \o ReplaceFrom(s, i + Len(old), old, new)

\* s.replace(old, new), old not empty
Replace(s, old, new) == IF In(old, s) THEN ReplaceFrom(s, 1, old, new) ELSE s

\* s.replace(old, new, 1)
ReplaceFirst(s, old, new) ==
  LET i == Find(s, old)
  IN IF i = 0 THEN s
     ELSE SubSeq(s, 1, i - 1) \o new \o SubSeq(s, i + Len(old), Len(s))

\* the atoms of s at the positions P, in order
Pick(s, P) ==
  [k \in 1..Cardinality(P) |-> s[CHOOSE i \in P : Cardinality({j \in P : j <= i}) = k]]

\* number of leading / trailing atoms of s that lie in set cs
LeadIn(s, cs) ==
  LET stop == Min({i \in DOMAIN s : s[i] \notin cs})
  IN IF stop = 0 THEN Len(s) ELSE stop - 1

TrailIn(s, cs) ==
  LET stop == Max({i \in DOMAIN s : s[i] \notin cs})
  IN Len(s) - stop

Whitespace == {" ", "\n", "\t"}

LStripSet(s, cs) == SubSeq(s, LeadIn(s, cs) + 1, Len(s))
RStripSet(s, cs) == SubSeq(s, 1, Len(s) - TrailIn(s, cs))
\* s.strip(), s.strip(chars), s.rstrip(chars)
Strip(s) == LStripSet(RStripSet(s, Whitespace), Whitespace)
StripSet(s, cs) == LStripSet(RStripSet(s, cs), cs)

UpperChars == <<"A", "B", "C", "D", "E", "F", "G", "H", "I", "J", "K", "L", "M",
                "N", "O", "P", "Q", "R", "S", "T", "U", "V", "W", "X", "Y", "Z",
                "U+00C3", "U+00C9">>
LowerChars == <<"a", "b", "c", "d", "e", "f", "g", "h", "i", "j", "k", "l", "m",
                "n", "o", "p", "q", "r", "s", "t", "u", "v", "w", "x", "y", "z",
                "U+00E3", "U+00E9">>

LowerChar(c) ==
  IF c \in Range(UpperChars)
  THEN LowerChars[CHOOSE i \in DOMAIN UpperChars : UpperChars[i] = c]
  ELSE c

\* s.lower()
Lower(s) == [i \in DOMAIN s |-> LowerChar(s[i])]

Digits == {"0", "1", "2", "3", "4", "5", "6", "7", "8", "9"}
IsLowerAlnum(c) == c \in Range(SubSeq(LowerChars, 1, 26)) \/ c \in Digits
IsUpperAscii(c) == c \in Range(SubSeq(UpperChars, 1, 26))

(***************************************************************************)
(* Helpers                                                                 *)
(***************************************************************************)
_has_mojibake(text) ==
  \E k \in DOMAIN MOJIBAKE_MAP : In(MOJIBAKE_MAP[k][1], text)

RECURSIVE FixMojibakeFrom(_, _)
FixMojibakeFrom(text, k) ==
  IF k > Len(MOJIBAKE_MAP) THEN text
  ELSE FixMojibakeFrom(Replace(text, MOJIBAKE_MAP[k][1], <<MOJIBAKE_MAP[k][2]>>), k + 1)

_fix_mojibake(text) == FixMojibakeFrom(text, 1)

(***************************************************************************)
(* Markup atoms                                                            *)
(***************************************************************************)
\* lexemes that are a whole tag, and lexemes that open a tag closed by ">"
CompleteTags == {"<p>", "</p>", "</h1>", "</h2>", "</h3>", "<hr />", "<hr>", "<hr/>",
                 "<ul>", "</ul>", "<li>", "</li>", "</a>"}
TagOpeners == {"<a", "<h1", "<h2", "<h3", "<h4", "<h5", "<h6", "<img"}

HasGT(a) == a = ">" \/ a \in CompleteTags
HasLT(a) == a \in TagOpeners \/ a \in CompleteTags

\* runs of plain words written as one atom, with the number of words in them
WordsOf(a) ==
  CASE a = "(500 words)" -> 500
    [] a = "(1200 words)" -> 1200
    [] a = "Continue Reading" -> 2
    [] a = "Dracula's Castle" -> 2
    [] a = "Ghost Tours Hub" -> 3
    [] a = "Salem Ghost Tours Hub" -> 4
    [] a = "Chicago Ghost Tours Hub" -> 4
    [] a = "New Orleans Ghost Tours Hub" -> 5
    [] OTHER -> 1

\* the first position from i on that holds no whitespace (Len + 1 when none)
SkipSpace(c, i) ==
  LET k == Min({j \in i..Len(c) : ~IsSpace(c[j])})
  IN IF k = 0 THEN Len(c) + 1 ELSE k

\* the first position from i on whose atom satisfies the test (0 when none)
FirstGT(c, i) == Min({j \in i..Len(c) : HasGT(c[j])})
FirstLT(c, i) == Min({j \in i..Len(c) : HasLT(c[j])})
FirstDQ(c, i) == Min({j \in i..Len(c) : c[j] = DQ})

(***************************************************************************)
(* Helpers: the Continue Reading section                                   *)
(***************************************************************************)
CrHeading == <<"<h3", ">", "Continue Reading", "</h3>">>

\* <hr\s*/?>[\s\n]*<h3>Continue Reading</h3>[\s\n]*<ul> matched at i:
\* the position of its <ul>, 0 when it does not match
CrHeadAt(c, i) ==
  IF i > Len(c) \/ c[i] \notin {"<hr />", "<hr>", "<hr/>"} THEN 0
  ELSE LET h == SkipSpace(c, i + 1)
       IN IF ~MatchAt(c, h, CrHeading) THEN 0
          ELSE LET u == SkipSpace(c, h + Len(CrHeading))
               IN IF u <= Len(c) /\ c[u] = "<ul>" THEN u ELSE 0

\* (\s*<hr ...<ul>.*?</ul>)\s*$ searched in content: (body, cr_section), the
\* section None when the pattern is not found
_split_continue_reading(content) ==
  LET last == Len(content) - TrailIn(content, Whitespace)
      heads == IF last >= 1 /\ content[last] = "</ul>"
               THEN {i \in 1..last : CrHeadAt(content, i) # 0 /\ CrHeadAt(content, i) < last}
               ELSE {}
      hr == Min(heads)
      start == hr - TrailIn(SubSeq(content, 1, hr - 1), Whitespace)
  IN IF hr = 0 THEN [body |-> content, cr |-> None]
     ELSE [body |-> SubSeq(content, 1, start - 1), cr |-> SubSeq(content, start, last)]

\* <a href="([^"]+)">([^<]+)</a> matched at i: where the url ends (its closing
\* quote) and where the label ends (the </a>), 0 when it does not match
CrAnchorAt(c, i) ==
  IF ~MatchAt(c, i, <<"<a", " ", "href=", DQ>>) THEN [q |-> 0, e |-> 0]
  ELSE LET q == FirstDQ(c, i + 4)
           l == FirstLT(c, q + 2)
       IN IF q >= i + 5 /\ q + 1 <= Len(c) /\ c[q + 1] = ">" /\ l >= q + 3 /\ c[l] = "</a>"
          THEN [q |-> q, e |-> l]
          ELSE [q |-> 0, e |-> 0]

\* re.findall of the pattern from position p on
RECURSIVE ExtractCrLinksFrom(_, _)
ExtractCrLinksFrom(c, p) ==
  LET i == Min({k \in p..Len(c) : c[k] = "<a" /\ CrAnchorAt(c, k).e # 0})
  IN IF i = 0 THEN <<>>
     ELSE LET m == CrAnchorAt(c, i)
          IN << <<SubSeq(c, i + 4, m.q - 1), SubSeq(c, m.q + 2, m.e - 1)>> >>
             \o ExtractCrLinksFrom(c, m.e + 1)

_extract_cr_links(cr_html) ==
  IF cr_html = None THEN <<>> ELSE ExtractCrLinksFrom(cr_html, 1)

CrItem(link) ==
  <<"<li>", "<a", " ", "href=", DQ>> \o link[1] \o <<DQ, ">">> \o link[2] \o <<"</a>", "</li>">>

\* "\n".join(items)
RECURSIVE JoinItems(_, _)
JoinItems(links, k) ==
  IF k > Len(links) THEN <<>>
  ELSE (IF k > 1 THEN <<LF>> ELSE <<>>) \o CrItem(links[k]) \o JoinItems(links, k + 1)

_build_continue_reading(links) ==
  <<LF, LF, "<hr />", LF, LF>> \o CrHeading \o <<LF, "<ul>", LF>>
    \o JoinItems(links, 1) \o <<LF, "</ul>">>

_get_hub_url(art, explicit_hub) ==
  IF explicit_hub # None THEN explicit_hub
  ELSE IF art.category_slug \in DOMAIN CATEGORY_HUBS THEN CATEGORY_HUBS[art.category_slug]
  ELSE None

\* position i lies inside a match of <[^>]+>: a '<' was opened since the last
\* '>' and a '>' follows
InTag(c, i, lts, gts) ==
  LET g == Max({j \in gts : j < i})
  IN (\E o \in lts : g < o /\ o <= i) /\ (\E j \in gts : j >= i)

\* len(re.sub(r'<[^>]+>', ' ', content).split())
_clean_word_count(content) ==
  LET lts == {i \in DOMAIN content : HasLT(content[i])}
      gts == {i \in DOMAIN content : HasGT(content[i])}
      text == {i \in DOMAIN content :
                 ~IsSpace(content[i]) /\ ~InTag(content, i, lts, gts)}
      starts == {i \in text : (i - 1) \notin text}
      runs == {i \in text : WordsOf(content[i]) > 1}
      Sum[S \in SUBSET runs] ==
        IF S = {} THEN 0
        ELSE LET i == CHOOSE x \in S : TRUE
             IN WordsOf(content[i]) - (IF (i - 1) \in text THEN 1 ELSE 0) + Sum[S \ {i}]
  IN Cardinality({i \in starts : WordsOf(content[i]) = 1}) + Sum[runs]

(***************************************************************************)
(* Stage 2: editorial layer, the functions on title, excerpt and slug      *)
(***************************************************************************)
DashSeparators ==
  << <<" ", "U+2014", " ">>, <<" ", "U+2013", " ">>, <<" ", "-", " ">> >>

TitlePunct == {".", ",", ";", ":", "!", "?", " "}

\* the base taken before the first separator instead of the last one
BaseBeforeFirst(title, sep) == Strip(SubSeq(title, 1, Find(title, sep) - 1))

\* title[:title.rindex(sep)].strip()
BaseBefore(title, sep) == Strip(SubSeq(title, 1, RFind(title, sep) - 1))

BaseFits(base) == MIN_TITLE <= Len(base) /\ Len(base) <= MAX_TITLE_RAW

HardTruncateTitle(title) ==
  LET truncated == SubSeq(title, 1, MAX_TITLE_RAW - 3)
      last_space == RFind(truncated, <<" ">>) - 1
      cut == IF last_space > MIN_TITLE THEN SubSeq(truncated, 1, last_space)
             ELSE truncated
  IN RStripSet(cut, TitlePunct) \o <<".", ".", ".">>

\* _truncate_title with the rendered limit taken for the raw one: C4 fails with it
_truncate_title_rendered(title) ==
  IF Len(title) <= MAX_RENDERED_TITLE THEN title
  ELSE SubSeq(title, 1, MAX_RENDERED_TITLE - 3) \o <<".", ".", ".">>

_truncate_title(title) ==
  IF Len(title) <= MAX_TITLE_RAW THEN title
  ELSE IF In(<<":">>, title) /\ BaseFits(BaseBefore(title, <<":">>))
       THEN BaseBefore(title, <<":">>)
  ELSE LET fits == {k \in DOMAIN DashSeparators :
                      /\ In(DashSeparators[k], title)
                      /\ BaseFits(BaseBefore(title, DashSeparators[k]))}
       IN IF fits # {}
          THEN BaseBefore(title, DashSeparators[CHOOSE k \in fits : \A j \in fits : k <= j])
          ELSE HardTruncateTitle(title)

SentenceEnd == {".", "!", "?"}

\* re.split(r'(?<=[.!?])\s+', s) from position p on: the pieces between the
\* whitespace runs that follow a sentence end
RECURSIVE SplitSentences(_, _)
SplitSentences(s, p) ==
  LET i == Min({k \in p..Len(s) : IsSpace(s[k]) /\ k > 1 /\ s[k - 1] \in SentenceEnd})
  IN IF i = 0 THEN <<SubSeq(s, p, Len(s))>>
     ELSE LET j == i + LeadIn(SubSeq(s, i, Len(s)), Whitespace)
          IN <<SubSeq(s, p, i - 1)>> \o SplitSentences(s, j)

\* the loop of _truncate_excerpt over the sentences, from sentence k on
RECURSIVE AccumulateSentences(_, _, _)
AccumulateSentences(sentences, k, built) ==
  IF k > Len(sentences) THEN built
  ELSE LET s == sentences[k]
           candidate == IF built # <<>> THEN Strip(built \o <<" ">> \o s) ELSE s
       IN IF Len(candidate) <= MAX_EXCERPT
          THEN AccumulateSentences(sentences, k + 1, candidate)
          ELSE built

HardTruncateExcerpt(excerpt) ==
  LET truncated == SubSeq(excerpt, 1, MAX_EXCERPT - 1)
      last_space == RFind(truncated, <<" ">>) - 1
      cut == IF last_space > MIN_EXCERPT THEN SubSeq(truncated, 1, last_space)
             ELSE truncated
  IN RStripSet(cut, TitlePunct) \o <<".">>

\* _truncate_excerpt without the sentence loop: the cut at the last space only
_truncate_excerpt_cut(excerpt) ==
  IF Len(excerpt) <= MAX_EXCERPT THEN excerpt ELSE HardTruncateExcerpt(excerpt)

_truncate_excerpt(excerpt) ==
  IF Len(excerpt) <= MAX_EXCERPT THEN excerpt
  ELSE LET built == AccumulateSentences(SplitSentences(excerpt, 1), 1, <<>>)
       IN IF built # <<>> /\ Len(built) >= MIN_EXCERPT THEN built
          ELSE HardTruncateExcerpt(excerpt)

\* re.sub(r'-+', '-', s)
CollapseHyphens(s) ==
  Pick(s, {i \in DOMAIN s : ~(s[i] = "-" /\ i > 1 /\ s[i - 1] = "-")})

_fix_slug(slug) ==
  LET lowered == StripSet(Lower(slug), {"/"})
      hyphenated == [i \in DOMAIN lowered |->
                       IF IsLowerAlnum(lowered[i]) \/ lowered[i] = "-"
                       THEN lowered[i] ELSE "-"]
  IN StripSet(CollapseHyphens(hyphenated), {"-"})

(***************************************************************************)
(* Stage 2: editorial layer, the functions on the content                  *)
(***************************************************************************)
Schemes == {"http://", "https://"}

\* <a\s+href="https?://[^"]*"[^>]*> matched at i: the positions of the quote
\* closing the url and of the '>' closing the tag, 0 when it does not match.
\* The QC pattern is the same with [^"]+ for the url (min_url = 1).
ExtTagAt(c, i, min_url) ==
  IF i > Len(c) \/ c[i] # "<a" THEN [q |-> 0, g |-> 0]
  ELSE LET j == SkipSpace(c, i + 1)
       IN IF j = i + 1 \/ ~MatchAt(c, j, <<"href=", DQ>>)
             \/ j + 2 > Len(c) \/ c[j + 2] \notin Schemes
          THEN [q |-> 0, g |-> 0]
          ELSE LET q == FirstDQ(c, j + 3)
                   g == IF q = 0 THEN 0 ELSE FirstGT(c, q + 1)
               IN IF q >= j + 3 + min_url /\ g # 0 THEN [q |-> q, g |-> g]
                  ELSE [q |-> 0, g |-> 0]

\* the tags re.findall(r'<a\s+href="https?://[^"]*"[^>]*>', content) returns,
\* as (first, last) positions, from position p on
RECURSIVE ExtTagsFrom(_, _, _)
ExtTagsFrom(c, p, min_url) ==
  LET i == Min({k \in p..Len(c) : c[k] = "<a" /\ ExtTagAt(c, k, min_url).g # 0})
  IN IF i = 0 THEN <<>>
     ELSE LET m == ExtTagAt(c, i, min_url)
          IN <<[first |-> i, q |-> m.q, last |-> m.g]>> \o ExtTagsFrom(c, m.g + 1, min_url)

RelAttrs == <<" ", "rel=", DQ, "noopener", " ", "noreferrer", DQ, " ", "target=", DQ, "_blank", DQ, ">">>
TargetAttr == <<" ", "target=", DQ, "_blank", DQ, ">">>

\* re.sub(r'rel="([^"]*)"', r'rel="\1 noopener noreferrer"', tag) from p on
RECURSIVE AddToRel(_, _)
AddToRel(tag, p) ==
  LET i == Min({k \in p..Len(tag) : MatchAt(tag, k, <<"rel=", DQ>>) /\ FirstDQ(tag, k + 2) # 0})
  IN IF i = 0 THEN SubSeq(tag, p, Len(tag))
     ELSE LET q == FirstDQ(tag, i + 2)
          IN SubSeq(tag, p, q - 1) \o <<" ", "noopener", " ", "noreferrer", DQ>>
               \o AddToRel(tag, q + 1)

\* 'target' in tag
HasTarget(tag) == "target=" \in Range(tag) \/ "target" \in Range(tag)

fix_tag(tag) ==
  LET with_rel ==
        IF "rel=" \notin Range(tag) THEN ReplaceFirst(tag, <<">">>, RelAttrs)
        ELSE IF "noopener" \notin Range(tag) THEN AddToRel(tag, 1)
        ELSE tag
  IN IF "target=" \notin Range(with_rel) THEN ReplaceFirst(with_rel, <<">">>, TargetAttr)
     ELSE with_rel

RECURSIVE FixExternalLinksFrom(_, _, _, _)
FixExternalLinksFrom(c, tags, k, p) ==
  IF k > Len(tags) THEN SubSeq(c, p, Len(c))
  ELSE SubSeq(c, p, tags[k].first - 1)
         \o fix_tag(SubSeq(c, tags[k].first, tags[k].last))
         \o FixExternalLinksFrom(c, tags, k + 1, tags[k].last + 1)

_fix_external_links(content) ==
  FixExternalLinksFrom(content, ExtTagsFrom(content, 1, 0), 1, 1)

\* the condition needs_fix of _editorial_fix
NeedsLinkFix(content) ==
  LET tags == ExtTagsFrom(content, 1, 0)
  IN \E k \in DOMAIN tags :
       LET tag == SubSeq(content, tags[k].first, tags[k].last)
       IN "noopener" \notin Range(tag) \/ ~HasTarget(tag)

\* <h1([^>]*)> matches at i: the first <h1 since the last '>' with a '>' after it
H1OpensAt(c, i) ==
  /\ c[i] = "<h1"
  /\ FirstGT(c, i + 1) # 0
  /\ LET g == Max({j \in 1..(i - 1) : HasGT(c[j])})
     IN \A j \in (g + 1)..(i - 1) : c[j] # "<h1"

_fix_headings(content) ==
  [i \in DOMAIN content |->
     IF H1OpensAt(content, i) THEN "<h2"
     ELSE IF content[i] = "</h1>" THEN "</h2>"
     ELSE content[i]]

\* <p>\s*</p> matches at i: the position of its </p>, 0 when it does not match
EmptyParagraphAt(c, i) ==
  IF c[i] # "<p>" THEN 0
  ELSE LET j == SkipSpace(c, i + 1)
       IN IF j <= Len(c) /\ c[j] = "</p>" THEN j ELSE 0

EmptyParagraphs(c) == {i \in DOMAIN c : EmptyParagraphAt(c, i) # 0}

_fix_empty_paragraphs(content) ==
  LET starts == EmptyParagraphs(content)
  IN Pick(content, {i \in DOMAIN content :
                      ~\E k \in starts : k <= i /\ i <= EmptyParagraphAt(content, k)})

(***************************************************************************)
(* Stage 1: QC layer                                                       *)
(***************************************************************************)
\* the length in characters of an atom
CharLen(a) ==
  CASE a = "(500 words)" -> 999
    [] a = "(1200 words)" -> 2399
    [] a \in {"<p>", "<a", "<h1", "<h2", "<h3", "<h4", "<h5", "<h6"} -> 3
    [] a \in {"</p>", "<ul>", "<li>", "</a>", "<img", "<hr>", "rel=", "alt=", "src="} -> 4
    [] a \in {"</h1>", "</h2>", "</h3>", "</ul>", "</li>", "<hr/>", "href=", "_self"} -> 5
    [] a \in {"<hr />", "_blank"} -> 6
    [] a \in {"http://", "target="} -> 7
    [] a \in {"https://", "noopener", "nofollow", "articles", "category"} -> 8
    [] a = "noreferrer" -> 10
    [] a = "destinations" -> 12
    [] a = "draculas-castle" -> 15
    [] a \in {"Continue Reading", "Dracula's Castle"} -> 16
    [] a = "Ghost Tours Hub" -> 15
    [] a = "salem-ghost-tours" -> 17
    [] a = "chicago-ghost-tours" -> 19
    [] a = "Salem Ghost Tours Hub" -> 21
    [] a \in {"Chicago Ghost Tours Hub", "new-orleans-ghost-tours"} -> 23
    [] a = "New Orleans Ghost Tours Hub" -> 27
    [] OTHER -> 1

RECURSIVE TextLen(_)
TextLen(s) == IF s = <<>> THEN 0 ELSE CharLen(Head(s)) + TextLen(Tail(s))

If(cond, msg) == IF cond THEN <<msg>> ELSE <<>>

HeadingLevel(a) ==
  CASE a = "<h1" -> 1 [] a = "<h2" -> 2 [] a = "<h3" -> 3
    [] a = "<h4" -> 4 [] a = "<h5" -> 5 [] a = "<h6" -> 6 [] OTHER -> 0

\* [int(h[1]) for h in re.findall(r'<(h[1-6])', body)]
HeadingLevels(body) ==
  LET hs == Pick(body, {i \in DOMAIN body : HeadingLevel(body[i]) # 0})
  IN [k \in DOMAIN hs |-> HeadingLevel(hs[k])]

\* href="(/[^"]*)" matches at i
InternalLinkAt(c, i) ==
  /\ MatchAt(c, i, <<"href=", DQ, "/">>)
  /\ FirstDQ(c, i + 3) # 0

\* re.findall(r'href="(/[^"]*)"', c), in order
InternalLinks(c) ==
  LET starts == {i \in DOMAIN c : c[i] = "href=" /\ InternalLinkAt(c, i)}
  IN [k \in 1..Cardinality(starts) |->
        LET i == CHOOSE x \in starts : Cardinality({j \in starts : j <= x}) = k
        IN SubSeq(c, i + 2, FirstDQ(c, i + 3) - 1)]

\* link.rstrip('/') + '/'
Normalized(link) == RStripSet(link, {"/"}) \o <<"/">>

\* the paragraphs re.findall(r'<p>(.*?)</p>', content, re.DOTALL) returns, stripped
RECURSIVE ParagraphsFrom(_, _)
ParagraphsFrom(c, p) ==
  LET i == Min({k \in p..Len(c) : c[k] = "<p>"})
      e == IF i = 0 THEN 0 ELSE Min({k \in (i + 1)..Len(c) : c[k] = "</p>"})
  IN IF e = 0 THEN <<>>
     ELSE <<Strip(SubSeq(c, i + 1, e - 1))>> \o ParagraphsFrom(c, e + 1)

HasDuplicateParagraph(content) ==
  LET paras == ParagraphsFrom(content, 1)
  IN \E k \in DOMAIN paras :
       /\ TextLen(paras[k]) > 50
       /\ \E j \in 1..(k - 1) : paras[j] = paras[k]

\* some <img\s([^>]+)> has no alt= or an empty alt=""
HasImageWithoutAlt(content) ==
  \E i \in DOMAIN content :
    /\ content[i] = "<img"
    /\ i + 1 <= Len(content) /\ IsSpace(content[i + 1])
    /\ LET g == FirstGT(content, i + 2)
           attrs == SubSeq(content, i + 2, g - 1)
       IN /\ g >= i + 3
          /\ "alt=" \notin Range(attrs) \/ In(<<"alt=", DQ, DQ>>, attrs)

\* some external link has attributes without noopener or without noreferrer
HasUnsafeExternalLink(content) ==
  LET tags == ExtTagsFrom(content, 1, 1)
  IN \E k \in DOMAIN tags :
       LET attrs == SubSeq(content, tags[k].q + 1, tags[k].last - 1)
       IN "noopener" \notin Range(attrs) \/ "noreferrer" \notin Range(attrs)

\* the slug test of _qc_one
SlugNeedsCleanup(slug) ==
  \/ slug # Lower(slug)
  \/ \E i \in DOMAIN slug : ~(IsLowerAlnum(slug[i]) \/ IsUpperAscii(slug[i]) \/ slug[i] = "-")
  \/ (slug # <<>> /\ slug[Len(slug)] = "/")

\* the Continue Reading checks of _qc_one, cr not None
QcContinueReading(art, cr, hub, siblings) ==
  LET cr_links == _extract_cr_links(cr)
      others == {k \in DOMAIN siblings : siblings[k] # art.slug}
      available == (IF hub # None THEN 1 ELSE 0) + Cardinality(others)
      at_least_1 == IF available > 1 THEN available ELSE 1
      effective_min == IF MIN_CONTINUE_READING_LINKS < at_least_1
                       THEN MIN_CONTINUE_READING_LINKS ELSE at_least_1
      sibling_count == Cardinality({k \in DOMAIN siblings :
                          \E j \in DOMAIN cr_links : In(siblings[k], cr_links[j][1])})
      min_siblings == IF Cardinality(others) < 2 THEN Cardinality(others) ELSE 2
  IN If(Len(cr_links) < effective_min, "Continue Reading has too few links")
     \o If(hub # None /\ ~\E j \in DOMAIN cr_links : In(RStripSet(hub, {"/"}), cr_links[j][1]),
           "Continue Reading missing hub link")
     \o If(siblings # <<>> /\ sibling_count < min_siblings,
           "Continue Reading has too few sibling links")

\* (fixable, blocking).  A message is modelled by its fixed part.
\* existing_slugs is a set of slugs, None being the empty set.
_qc_one(art, hub_url_arg, sibling_slugs, valid, existing_slugs) ==
  LET hub == _get_hub_url(art, hub_url_arg)
      siblings == sibling_slugs
      min_words == IF art.article_type = "pillar" THEN MIN_WORD_COUNT_PILLAR
                   ELSE MIN_WORD_COUNT_CLUSTER
      rendered == art.title \o BRAND_SUFFIX
      split == _split_continue_reading(art.content)
      body == split.body
      cr == split.cr
      wc == _clean_word_count(body)
      levels == HeadingLevels(body)
      body_links == InternalLinks(body)
      all_links == InternalLinks(art.content)
      broken == {k \in DOMAIN all_links :
                   Normalized(all_links[k]) \notin valid /\ all_links[k] \notin valid}
  IN [blocking |->
        If(Len(art.title) < MIN_TITLE, "title too short")
        \o If(Len(art.excerpt) < MIN_EXCERPT, "excerpt too short")
        \o If(existing_slugs # {} /\ art.slug \in existing_slugs, "slug already exists on disk")
        \o If(art.image_url # <<>> /\ art.image_url[1] # "https://", "image_url must be absolute")
        \o If(wc < min_words, "content too thin")
        \o If(art.image_url = <<>>, "missing featured image URL")
        \o If(art.image_alt = <<>>, "missing featured image alt text")
        \o If(art.category_slug = "", "missing category slug")
        \o If(art.category_name = "", "missing category name")
        \o If(art.category_slug # "" /\ art.category_slug \notin DOMAIN CATEGORY_HUBS,
              "category not in CATEGORY_HUBS"),
      fixable |->
        If(Len(art.title) >= MIN_TITLE /\ Len(rendered) > MAX_RENDERED_TITLE, "title too long")
        \o If(Len(art.excerpt) >= MIN_EXCERPT /\ Len(art.excerpt) > MAX_EXCERPT, "excerpt too long")
        \o If(SlugNeedsCleanup(art.slug), "slug needs cleanup")
        \o If(1 \in Range(levels), "content contains <h1>")
        \o If(levels # <<>> /\ levels[1] \notin {2, 3}, "first heading is not <h2>")
        \o If(\E i \in 2..Len(levels) : levels[i] > levels[i - 1] + 1, "heading jump")
        \o If(_has_mojibake(art.content), "content has mojibake characters")
        \o If(_has_mojibake(art.title), "title has mojibake characters")
        \o If(_has_mojibake(art.excerpt), "excerpt has mojibake characters")
        \o If(HasUnsafeExternalLink(art.content), "external link missing rel")
        \o If(EmptyParagraphs(art.content) # {}, "empty <p> tag(s)")
        \o If(HasDuplicateParagraph(art.content), "duplicate paragraph detected")
        \o If(HasImageWithoutAlt(art.content), "inline <img> missing or empty alt text")
        \o If(Len(body_links) < MIN_BODY_INTERNAL_LINKS, "body has too few internal links")
        \o (IF valid # {}
            THEN [k \in 1..Cardinality(broken) |-> "internal link target may not exist"]
            ELSE <<>>)
        \o If(hub # None /\ ~\E k \in DOMAIN all_links : In(RStripSet(hub, {"/"}), all_links[k]),
              "missing hub link")
        \o (IF cr = None THEN <<"no Continue Reading section">>
            ELSE QcContinueReading(art, cr, hub, siblings))]

(***************************************************************************)
(* Stage 2: editorial layer, _editorial_fix                                *)
(***************************************************************************)
ArticleUrl(slug) == <<"/", "articles", "/">> \o slug \o <<"/">>

\* siblings = [a for a in articles if a.slug != art.slug], read when the loop
\* reaches article i: the articles before i have been fixed, those after have not
Siblings(arts, i) ==
  Pick(arts, {j \in DOMAIN arts : arts[j].slug # arts[i].slug})

\* the Continue Reading step of the loop body: the new content and what it logs
FixContinueReading(content, hub, siblings) ==
  LET split == _split_continue_reading(content)
      cr_links == _extract_cr_links(split.cr)
      hub_link == <<hub, HUB_LABELS(hub)>>
  IN IF split.cr # None
     THEN IF hub # None /\ ~\E j \in DOMAIN cr_links : In(RStripSet(hub, {"/"}), cr_links[j][1])
          THEN [content |-> split.body \o _build_continue_reading(Append(cr_links, hub_link)),
                fixes |-> <<"injected hub link into Continue Reading">>]
          ELSE [content |-> content, fixes |-> <<>>]
     ELSE LET first4 == SubSeq(siblings, 1, IF Len(siblings) < 4 THEN Len(siblings) ELSE 4)
              sib_links == [k \in DOMAIN first4 |->
                              <<ArticleUrl(first4[k].slug), first4[k].title>>]
              links == sib_links \o (IF hub # None THEN <<hub_link>> ELSE <<>>)
          IN IF links # <<>>
             THEN [content |-> split.body \o _build_continue_reading(links),
                   fixes |-> <<"generated Continue Reading">>]
             ELSE [content |-> content, fixes |-> <<>>]

\* The loop body is a chain of steps over the article and its list of fixes.
\* Title step
FixTitleStep(st) ==
  IF Len(st.art.title \o BRAND_SUFFIX) > MAX_RENDERED_TITLE
  THEN [art |-> [st.art EXCEPT !.title = _truncate_title(st.art.title)],
        fixes |-> Append(st.fixes, "title")]
  ELSE st

\* Excerpt step
FixExcerptStep(st) ==
  IF Len(st.art.excerpt) > MAX_EXCERPT
  THEN [art |-> [st.art EXCEPT !.excerpt = _truncate_excerpt(st.art.excerpt)],
        fixes |-> Append(st.fixes, "excerpt")]
  ELSE st

\* Slug step
FixSlugStep(st) ==
  IF _fix_slug(st.art.slug) # st.art.slug
  THEN [art |-> [st.art EXCEPT !.slug = _fix_slug(st.art.slug)],
        fixes |-> Append(st.fixes, "slug")]
  ELSE st

\* Mojibake steps: content, then title, then excerpt
FixMojibakeContentStep(st) ==
  IF _has_mojibake(st.art.content)
  THEN [art |-> [st.art EXCEPT !.content = _fix_mojibake(st.art.content)],
        fixes |-> Append(st.fixes, "fixed mojibake in content")]
  ELSE st

FixMojibakeTitleStep(st) ==
  IF _has_mojibake(st.art.title)
  THEN [art |-> [st.art EXCEPT !.title = _fix_mojibake(st.art.title)],
        fixes |-> Append(st.fixes, "fixed mojibake in title")]
  ELSE st

FixMojibakeExcerptStep(st) ==
  IF _has_mojibake(st.art.excerpt)
  THEN [art |-> [st.art EXCEPT !.excerpt = _fix_mojibake(st.art.excerpt)],
        fixes |-> Append(st.fixes, "fixed mojibake in excerpt")]
  ELSE st

\* External link security step
FixLinksStep(st) ==
  IF NeedsLinkFix(st.art.content)
  THEN [art |-> [st.art EXCEPT !.content = _fix_external_links(st.art.content)],
        fixes |-> Append(st.fixes, "added rel/target to external links")]
  ELSE st

\* H1 downgrade step
FixH1Step(st) ==
  IF "<h1" \in Range(st.art.content)
  THEN [art |-> [st.art EXCEPT !.content = _fix_headings(st.art.content)],
        fixes |-> Append(st.fixes, "downgraded <h1> to <h2>")]
  ELSE st

\* Empty paragraphs step
FixEmptyStep(st) ==
  IF EmptyParagraphs(st.art.content) # {}
  THEN [art |-> [st.art EXCEPT !.content = _fix_empty_paragraphs(st.art.content)],
        fixes |-> Append(st.fixes, "removed empty <p> tags")]
  ELSE st

\* Continue Reading step
WithContinueReading(st, cr) ==
  [art |-> [st.art EXCEPT !.content = cr.content], fixes |-> st.fixes \o cr.fixes]

FixCrStep(st, hub, siblings) ==
  WithContinueReading(st, FixContinueReading(st.art.content, hub, siblings))

\* the steps in the order of the loop body
FixSteps(art, hub, siblings) ==
  FixCrStep(
    FixEmptyStep(FixH1Step(FixLinksStep(
      FixMojibakeExcerptStep(FixMojibakeTitleStep(FixMojibakeContentStep(
        FixSlugStep(FixExcerptStep(FixTitleStep([art |-> art, fixes |-> <<>>]))))))))),
    hub, siblings)

\* the end of a turn: article i is as the steps left it, and the log has an
\* entry if the turn made a fix
EndTurn(run, i, st) ==
  [arts |-> [run.arts EXCEPT ![i] = st.art],
   log |-> run.log \o (IF st.fixes # <<>> THEN << <<st.art.slug, st.fixes>> >> ELSE <<>>)]

\* one turn of the loop of _editorial_fix, on article i of the list
FixArticle(run, i, hub_url_arg) ==
  EndTurn(run, i, FixSteps(run.arts[i], _get_hub_url(run.arts[i], hub_url_arg),
                           Siblings(run.arts, i)))

\* the loop of _editorial_fix from article i on
RECURSIVE EditorialFixFrom(_, _, _)
EditorialFixFrom(run, i, hub_url_arg) ==
  IF i > Len(run.arts) THEN run
  ELSE EditorialFixFrom(FixArticle(run, i, hub_url_arg), i + 1, hub_url_arg)

\* the articles as mutated in place, and the fix log returned
_editorial_fix(arts, hub_url_arg) ==
  EditorialFixFrom([arts |-> arts, log |-> <<>>], 1, hub_url_arg)

(***************************************************************************)
(* Pipeline                                                                *)
(***************************************************************************)
\* The paths _build_valid_urls collects from the project tree, for a project
\* whose article directory holds the slugs on_disk.
_build_valid_urls(on_disk) ==
  { <<"/">>, <<"/", "articles", "/">>, <<"/", "destinations", "/">>, <<"/", "experiences", "/">> }
  \cup { ArticleUrl(slug) : slug \in on_disk }
  \cup { SalemHub, NewOrleansHub, ChicagoHub, DraculaHub }
  \cup { <<"/", "articles", "/", "category", "/", c, "/">> : c \in DOMAIN CATEGORY_HUBS }
  \cup { <<"/", "experiences", "/", e, "/">> :
           e \in {"cemetery-tours", "paranormal-investigations", "pub-crawls", "true-crime",
                  "walking-tours"} }
  \cup { <<"/", u, "/">> : u \in {"about", "contact", "editorial-policy", "privacy-policy", "terms"} }

Slugs(arts) == [k \in DOMAIN arts |-> arts[k].slug]

\* the issues one QC pass finds, per article
QcPass(arts, hub_url_arg, valid, existing_slugs) ==
  [k \in DOMAIN arts |-> _qc_one(arts[k], hub_url_arg, Slugs(arts), valid, existing_slugs)]

RECURSIVE SumLen(_, _)
SumLen(lists, k) == IF k > Len(lists) THEN 0 ELSE Len(lists[k]) + SumLen(lists, k + 1)

\* valid_urls after the URLs of the batch are added
WithBatchUrls(valid, arts) == valid \cup {ArticleUrl(arts[k].slug) : k \in DOMAIN arts}

\* total_blocking of the first pass
TotalBlocking(qc) == SumLen([k \in DOMAIN qc |-> qc[k].blocking], 1)

\* the issues left after the final pass, fixable and blocking
Remaining(qc) == SumLen([k \in DOMAIN qc |-> qc[k].fixable \o qc[k].blocking], 1)

(***************************************************************************)
(* The batches the pipeline is given                                       *)
(***************************************************************************)
MaxBatch == 3
MaxFixRuns == 2

Anchor(url, label) == <<"<a", " ", "href=", DQ>> \o url \o <<DQ, ">">> \o label \o <<"</a>">>
ExtAnchor(attrs) ==
  <<"<a", " ", "href=", DQ, "https://", "e", DQ>> \o attrs \o <<">", "t", "</a>">>

\* two valid internal links, one of them the hub of the category
BodyLinks == Anchor(<<"/", "articles", "/">>, <<"x">>) \o <<" ">> \o Anchor(ChicagoHub, <<"y">>)
BaseBody ==
  <<"<h2", ">", "h", "</h2>", "<p>", "(500 words)", " ">> \o BodyLinks \o <<"</p>">>

SlugA == <<"s", "a">>
TitleOk == Rep("t", 12)
TakenSlug == <<"t", "k", "n">>
ExistingSlugs == {TakenSlug}

Base ==
  [title |-> TitleOk, slug |-> <<"x", "y">>, excerpt |-> Rep("e", 60),
   category_slug |-> "chicago-haunted-history", category_name |-> "Chicago",
   image_url |-> <<"https://", "i">>, image_alt |-> <<"a">>,
   content |-> BaseBody, article_type |-> "cluster"]

Titles ==
  { Rep("t", 5),
    Rep("t", 10),
    Rep("a", 18) \o <<":", " ">> \o Rep("b", 35),
    Rep("a", 4) \o <<":", " ">> \o Rep("b", 30) \o <<" ">> \o Rep("c", 30),
    Rep("a", 20) \o <<" ", "-", " ">> \o Rep("b", 35),
    Rep("a", 20) \o <<" ">> \o Rep("b", 20) \o <<" ">> \o Rep("c", 20),
    <<"a", "b">> \o Rep(".", 49),
    Rep("t", 8) \o <<"U+00C3", "U+00A9">>,
    Rep("t", 10) \o <<"U+00E2", "U+20AC", "U+00E2", "U+20AC", "U+0153">>,
    Rep("t", 48) \o <<"U+00C3", "U+00A9", "U+00C3", "U+00A9">> }

Excerpts ==
  { Rep("e", 20),
    Rep("e", 68) \o <<".", " ">> \o Rep("f", 69) \o <<".", " ">> \o Rep("g", 58) \o <<".">>,
    Rep("e", 200),
    Rep("e", 30) \o <<".", " ">> \o Rep("f", 170),
    Rep("e", 49) \o <<"U+00C3", "U+00A9">>,
    Rep("e", 60) \o <<"U+00E2", "U+20AC", "U+00A6">> }

TestSlugs ==
  { <<"M", "y", " ", "S", "l", "u", "g", "/", "/">>,
    TakenSlug,
    <<"T", "K", "N">>,
    SlugA,
    <<"S", "A">>,
    <<"s", " ", "b">> }

CrFull == _build_continue_reading(<< <<ArticleUrl(SlugA), TitleOk>>,
                                     <<ChicagoHub, HUB_LABELS(ChicagoHub)>> >>)
CrNoHub == _build_continue_reading(<< <<ArticleUrl(SlugA), TitleOk>> >>)
CrExternal == _build_continue_reading(<< <<ArticleUrl(SlugA), TitleOk>>,
                                         <<<<"https://", "e">>, <<"t">>>> >>)
\* a body with no link to the hub, so that only the section can hold it
PlainBody ==
  <<"<h2", ">", "h", "</h2>", "<p>", "(500 words)", " ">>
    \o Anchor(<<"/", "articles", "/">>, <<"x">>) \o <<" ">> \o Anchor(<<"/">>, <<"y">>) \o <<"</p>">>

Contents ==
  { BaseBody \o <<"<h1", ">", "t", "</h1>">>,
    <<"<h1", ">", "t", "</h1>">> \o BaseBody,
    BaseBody \o <<"<h4", ">", "t", "</h4>">>,
    BaseBody \o <<"<h1">>,
    BaseBody \o <<"<p>", " ", LF, "</p>">>,
    BaseBody \o <<"<p>", "<p>", "</p>", "</p>">>,
    BaseBody \o ExtAnchor(<<>>),
    BaseBody \o ExtAnchor(<<" ", "rel=", DQ, "nofollow", DQ>>),
    BaseBody \o ExtAnchor(<<" ", "rel=", DQ, "noopener", DQ, " ", "target=", DQ, "_blank", DQ>>),
    BaseBody \o ExtAnchor(<<" ", "rel=", DQ, "noopener", " ", "noreferrer", DQ,
                            " ", "target=", DQ, "_blank", DQ>>),
    BaseBody \o ExtAnchor(<<" ", "rel=", "'", "nofollow", "'">>),
    BaseBody \o <<"<p>", "U+00C3", "U+00A9", "</p>">>,
    BaseBody \o <<"<p>", "U+00E2", "U+20AC", "U+00E2", "U+20AC", "U+0153", "</p>">>,
    BaseBody \o CrFull,
    BaseBody \o CrFull \o <<LF, " ">>,
    PlainBody,
    PlainBody \o CrNoHub,
    PlainBody \o CrExternal,
    BaseBody \o <<"<img", " ", "src=", DQ, "i", DQ, ">">>,
    BaseBody \o <<"<p>", "(500 words)", "</p>", "<p>", "(500 words)", "</p>">>,
    <<"<h2", ">", "h", "</h2>", "<p>", "w", " ">> \o BodyLinks \o <<"</p>">>,
    <<"<h2", ">", "h", "</h2>", "<p>", "(500 words)", "</p>">> }

TestDocs ==
  {Base}
  \cup {[Base EXCEPT !.title = t] : t \in Titles}
  \cup {[Base EXCEPT !.excerpt = e] : e \in Excerpts}
  \cup {[Base EXCEPT !.slug = g] : g \in TestSlugs}
  \cup {[Base EXCEPT !.content = c] : c \in Contents}
  \cup {[Base EXCEPT !.category_slug = c] : c \in {"tour-planning", "unregistered", ""}}
  \cup {[Base EXCEPT !.image_url = u] : u \in {<<>>, <<"http://", "i">>}}
  \cup {[Base EXCEPT !.title = Rep("a", 20) \o <<" ">> \o Rep("b", 20) \o <<" ">> \o Rep("c", 20),
                     !.excerpt = Rep("e", 200),
                     !.slug = <<"M", "y", " ", "S", "l", "u", "g", "/", "/">>]}
  \cup {[Base EXCEPT !.image_alt = <<>>], [Base EXCEPT !.category_name = ""],
        [Base EXCEPT !.article_type = "pillar"],
        [Base EXCEPT !.article_type = "pillar",
                     !.content = <<"<h2", ">", "h", "</h2>", "<p>", "(1200 words)", " ">>
                                   \o BodyLinks \o <<"</p>">>]}

\* the other articles of a batch are clean, with slugs sa, sb, ... by position
SiblingAt(k) ==
  [Base EXCEPT !.slug = <<"s", <<"a", "b", "c", "d", "e", "f", "g", "h">>[k]>>]

\* six clean articles, so that an article has more than four siblings
SixBatch == [k \in 1..6 |-> SiblingAt(k)]

\* an article of TestDocs first or last in a batch of up to MaxBatch articles
Batches ==
  {SixBatch}
  \cup UNION { { [k \in 1..n |-> IF k = p THEN d ELSE SiblingAt(k)] :
                   p \in {1, n}, d \in TestDocs } :
               n \in 1..MaxBatch }

\* the calls: publish_articles(articles) and publish_articles(articles, hub_url)
Calls ==
  {[articles |-> b, hub_url |-> None] : b \in Batches}
  \cup {[articles |-> b, hub_url |-> SalemHub] : b \in {x \in Batches : Len(x) = 1 \/ x = SixBatch}}

(***************************************************************************)
(* The state machine                                                       *)
(***************************************************************************)
\* no helper function has been called
NoCall == [fn |-> "none"]

Init ==
  /\ \E c \in Calls :
       /\ articles = c.articles
       /\ hub_url = c.hub_url
  /\ disk = ExistingSlugs
  /\ valid_urls = {}
  /\ pc = "COLLECTED"
  /\ entry = articles
  /\ fix_log = <<>>
  /\ fix_runs = 0
  /\ written = <<>>
  /\ result = "none"
  /\ total_blocking = 0
  /\ remaining = 0
  /\ call = NoCall

\* publish_articles, stage 1: the first QC pass over the batch
Stage1QC ==
  /\ pc = "COLLECTED"
  /\ valid_urls' = WithBatchUrls(_build_valid_urls(disk), articles)
  /\ total_blocking' = TotalBlocking(QcPass(articles, hub_url, valid_urls', disk))
  /\ pc' = "QC_CHECKED"
  /\ UNCHANGED <<call, articles, hub_url, disk, entry, fix_log, fix_runs, written, result, remaining>>

\* blocking issues: return False before the editorial layer
AbortBlocking ==
  /\ pc = "QC_CHECKED"
  /\ total_blocking > 0
  /\ pc' = "ABORTED"
  /\ result' = "False"
  /\ UNCHANGED <<call, articles, hub_url, disk, valid_urls, entry, fix_log, fix_runs, written,
                 total_blocking, remaining>>

\* stage 2 entered whatever the first pass found: C2 fails with it
Stage2EditorialFixUngated ==
  /\ pc = "QC_CHECKED"
  /\ articles' = _editorial_fix(articles, hub_url).arts
  /\ fix_log' = _editorial_fix(articles, hub_url).log
  /\ entry' = articles
  /\ fix_runs' = fix_runs + 1
  /\ pc' = "FIXED"
  /\ UNCHANGED <<call, hub_url, disk, valid_urls, written, result, total_blocking, remaining>>

\* stage 2: the editorial layer mutates the batch in place
Stage2EditorialFix ==
  /\ pc = "QC_CHECKED"
  /\ total_blocking = 0
  /\ articles' = _editorial_fix(articles, hub_url).arts
  /\ fix_log' = _editorial_fix(articles, hub_url).log
  /\ entry' = articles
  /\ fix_runs' = fix_runs + 1
  /\ pc' = "FIXED"
  /\ UNCHANGED <<call, hub_url, disk, valid_urls, written, result, total_blocking, remaining>>

\* stage 3: the final QC pass, with the new slugs added to the valid URLs and
\* without the slugs on disk
Stage3FinalQC ==
  /\ pc = "FIXED"
  /\ valid_urls' = WithBatchUrls(valid_urls, articles)
  /\ remaining' = Remaining(QcPass(articles, hub_url, valid_urls', {}))
  /\ pc' = "FINAL_CHECKED"
  /\ UNCHANGED <<call, articles, hub_url, disk, entry, fix_log, fix_runs, written, result, total_blocking>>

\* issues remain: return False
AbortRemaining ==
  /\ pc = "FINAL_CHECKED"
  /\ remaining > 0
  /\ pc' = "ABORTED_FINAL"
  /\ result' = "False"
  /\ UNCHANGED <<call, articles, hub_url, disk, valid_urls, entry, fix_log, fix_runs, written,
                 total_blocking, remaining>>

\* stage 4 entered whatever the final pass found: C1 fails with it
Stage4WriteUngated ==
  /\ pc = "FINAL_CHECKED"
  /\ written' = articles
  /\ disk' = disk \cup {articles[k].slug : k \in DOMAIN articles}
  /\ pc' = "PERSISTED"
  /\ result' = "True"
  /\ UNCHANGED <<call, articles, hub_url, valid_urls, entry, fix_log, fix_runs, total_blocking, remaining>>

\* stage 4: _write_to_disk(articles), one file per slug, and return True
Stage4Write ==
  /\ pc = "FINAL_CHECKED"
  /\ remaining = 0
  /\ written' = articles
  /\ disk' = disk \cup {articles[k].slug : k \in DOMAIN articles}
  /\ pc' = "PERSISTED"
  /\ result' = "True"
  /\ UNCHANGED <<call, articles, hub_url, valid_urls, entry, fix_log, fix_runs, total_blocking, remaining>>

\* _editorial_fix called on the batch outside the pipeline, once or again
EditorialFixCall ==
  /\ pc \in {"COLLECTED", "FIX_CALLED"}
  /\ fix_runs < MaxFixRuns
  /\ articles' = _editorial_fix(articles, hub_url).arts
  /\ fix_log' = _editorial_fix(articles, hub_url).log
  /\ entry' = articles
  /\ fix_runs' = fix_runs + 1
  /\ pc' = "FIX_CALLED"
  /\ UNCHANGED <<call, hub_url, disk, valid_urls, written, result, total_blocking, remaining>>

Next ==
  \/ Stage1QC
  \/ AbortBlocking
  \/ Stage2EditorialFix
  \/ Stage3FinalQC
  \/ AbortRemaining
  \/ Stage4Write
  \/ EditorialFixCall

Spec == Init /\ [][Next]_vars

(***************************************************************************)
(* The helper functions called on their own                                *)
(***************************************************************************)
MaxLinks == 2

\* links with a label free of markup: to an article, to a hub, to another site
HelperLinks ==
  { <<ArticleUrl(SlugA), TitleOk>>,
    <<ArticleUrl(<<"s", "b">>), <<"G", "h", "o", "s", "t", " ", "U+00C3", "U+00A9">>>>,
    <<ChicagoHub, HUB_LABELS(ChicagoHub)>>,
    <<<<"https://", "e">>, <<"t">>>> }

LinkLists ==
  UNION { [1..n -> HelperLinks] : n \in 0..MaxLinks }

\* bodies: empty, plain, ending in whitespace, and holding the markup of an
\* earlier Continue Reading section followed by a paragraph
HelperBodies ==
  { <<>>,
    BaseBody,
    BaseBody \o <<LF, " ">>,
    PlainBody \o CrNoHub \o <<"<p>", "x", "</p>">> }

\* contents for _split_continue_reading: with and without a section, with
\* whitespace around it, with the heading but no list at the end
HelperContents ==
  { BaseBody,
    BaseBody \o CrFull,
    BaseBody \o CrFull \o <<LF>>,
    BaseBody \o CrFull \o <<LF, " ">>,
    BaseBody \o <<" ">> \o CrNoHub,
    PlainBody \o CrExternal,
    PlainBody \o CrNoHub \o <<"<p>", "x", "</p>">>,
    PlainBody \o CrNoHub \o <<"<p>", "x", "</p>">> \o CrFull,
    CrFull,
    BaseBody \o <<"<hr />", LF, "<h3", ">", "Continue Reading", "</h3>", LF, "<ul>",
                  "<li>", "x", "</li>", "</ul>">> }
    \cup { b \o _build_continue_reading(l) : b \in HelperBodies, l \in LinkLists }

InitHelpers ==
  /\ articles = <<>>
  /\ hub_url = None
  /\ disk = ExistingSlugs
  /\ valid_urls = {}
  /\ pc = "HELPERS"
  /\ entry = <<>>
  /\ fix_log = <<>>
  /\ fix_runs = 0
  /\ written = <<>>
  /\ result = "none"
  /\ total_blocking = 0
  /\ remaining = 0
  /\ call = NoCall

\* _extract_cr_links(_split_continue_reading(content)[1])
SplitLinks(content) == _extract_cr_links(_split_continue_reading(content).cr)

\* _split_continue_reading(body + _build_continue_reading(links)), and the
\* links _extract_cr_links finds in the section
BuildSplitCall ==
  /\ call = NoCall
  /\ \E links \in LinkLists, body \in HelperBodies :
       call' = [fn |-> "build_split", links |-> links, body |-> body,
                out |-> _split_continue_reading(body \o _build_continue_reading(links)),
                extracted |-> SplitLinks(body \o _build_continue_reading(links))]
  /\ UNCHANGED <<articles, hub_url, disk, valid_urls, pc, entry, fix_log, fix_runs, written,
                 result, total_blocking, remaining>>

\* split, build from the extracted links, split again
Rebuilt(content) ==
  _split_continue_reading(content).body \o _build_continue_reading(SplitLinks(content))

SplitBuildSplitCall ==
  /\ call = NoCall
  /\ \E content \in {c \in HelperContents : _split_continue_reading(c).cr # None} :
       call' = [fn |-> "split_build_split", content |-> content,
                first |-> SplitLinks(content),
                second |-> SplitLinks(Rebuilt(content))]
  /\ UNCHANGED <<articles, hub_url, disk, valid_urls, pc, entry, fix_log, fix_runs, written,
                 result, total_blocking, remaining>>

\* _split_continue_reading(content)
SplitCall ==
  /\ call = NoCall
  /\ \E content \in HelperContents :
       call' = [fn |-> "_split_continue_reading", content |-> content,
                out |-> _split_continue_reading(content)]
  /\ UNCHANGED <<articles, hub_url, disk, valid_urls, pc, entry, fix_log, fix_runs, written,
                 result, total_blocking, remaining>>

MaxSentences == 3
SentenceLengths == {20, 69, 100, 170}

\* a sentence of n characters, its full stop included
SentenceOf(n) == Rep("e", n - 1) \o <<".">>

\* the sentences of the given lengths, one space between them
RECURSIVE SentencesText(_)
SentencesText(lens) ==
  IF Len(lens) = 1 THEN SentenceOf(lens[1])
  ELSE SentenceOf(lens[1]) \o <<" ">> \o SentencesText(Tail(lens))

\* excerpts for the excerpt step: those of the batches, runs of sentences of
\* every length mix, sentences three spaces apart, words without a sentence
\* end, other sentence ends, a full stop with no whitespace after it
HelperExcerpts ==
  Excerpts
    \cup { SentencesText(lens) :
             lens \in UNION { [1..n -> SentenceLengths] : n \in 1..MaxSentences } }
    \cup { Rep("e", 79) \o <<".", " ", " ", " ">> \o Rep("f", 78) \o <<".">>,
           Rep("e", 79) \o <<".", " ", " ", " ">> \o Rep("f", 79) \o <<".">>,
           Rep("w", 70) \o <<" ">> \o Rep("x", 70) \o <<" ">> \o Rep("y", 70),
           Rep("e", 59) \o <<"!", " ">> \o Rep("f", 59) \o <<"?", LF>> \o Rep("g", 59) \o <<".">>,
           Rep("e", 60) \o <<".">> \o Rep("f", 60) \o <<".", " ">> \o Rep("g", 60) }

\* the excerpt step of _editorial_fix on an article with the given excerpt
ExcerptStepCall ==
  /\ call = NoCall
  /\ \E excerpt \in HelperExcerpts :
       call' = [fn |-> "_truncate_excerpt", excerpt |-> excerpt,
                out |-> FixExcerptStep([art |-> [Base EXCEPT !.excerpt = excerpt],
                                        fixes |-> <<>>]).art.excerpt]
  /\ UNCHANGED <<articles, hub_url, disk, valid_urls, pc, entry, fix_log, fix_runs, written,
                 result, total_blocking, remaining>>

BaseLengths == {4, 10, 18, 50, 51}
SubtitleLengths == {5, 35, 60}

\* titles for the title step: those of the batches, a base and a subtitle of
\* every length mix, two colons, whitespace before the colon, 50 and 51
\* characters without a separator
HelperTitles ==
  Titles
    \cup { Rep("a", b) \o <<":", " ">> \o Rep("b", n) :
             b \in BaseLengths, n \in SubtitleLengths }
    \cup { Rep("a", 18) \o <<":", " ">> \o Rep("b", 20) \o <<":", " ">> \o Rep("c", 30),
           Rep("a", 18) \o <<":", " ">> \o Rep("b", 40) \o <<":", " ">> \o Rep("c", 30),
           Rep("a", 18) \o <<" ", ":">> \o Rep("b", 40),
           Rep("t", 50),
           Rep("t", 51) }

\* the title step of _editorial_fix on an article with the given title
TitleStepCall ==
  /\ call = NoCall
  /\ \E title \in HelperTitles :
       call' = [fn |-> "_truncate_title", title |-> title,
                out |-> FixTitleStep([art |-> [Base EXCEPT !.title = title],
                                      fixes |-> <<>>]).art.title]
  /\ UNCHANGED <<articles, hub_url, disk, valid_urls, pc, entry, fix_log, fix_runs, written,
                 result, total_blocking, remaining>>

\* _editorial_fix on a batch of one article with the given title
EditorialFixTitleCall ==
  /\ call = NoCall
  /\ \E title \in HelperTitles :
       call' = [fn |-> "_editorial_fix", title |-> title,
                out |-> _editorial_fix(<<[Base EXCEPT !.title = title]>>, None).arts[1].title]
  /\ UNCHANGED <<articles, hub_url, disk, valid_urls, pc, entry, fix_log, fix_runs, written,
                 result, total_blocking, remaining>>

NextHelpers ==
  \/ BuildSplitCall
  \/ SplitBuildSplitCall
  \/ SplitCall
  \/ ExcerptStepCall
  \/ TitleStepCall
  \/ EditorialFixTitleCall

SpecHelpers == InitHelpers /\ [][NextHelpers]_vars

(***************************************************************************)
(* Properties                                                              *)
(***************************************************************************)
\* _qc_one run again on article k of the batch as it now is
QcAgain(k) == _qc_one(articles[k], hub_url, Slugs(articles), valid_urls, {})

\* the first QC pass on article k of the batch as it was given
QcAtEntry(k) == _qc_one(entry[k], hub_url, Slugs(entry), valid_urls, ExistingSlugs)

NoIssue(qc) == qc.fixable = <<>> /\ qc.blocking = <<>>

HasCr(content) == _split_continue_reading(content).cr # None

\* the (url, label) pairs of the Continue Reading section of a content
CrLinksOf(content) == _extract_cr_links(_split_continue_reading(content).cr)

\* the k-th smallest element of a set of positions
Kth(S, k) == CHOOSE i \in S : Cardinality({j \in S : j < i}) = k - 1

\* the urls of all anchors of a text, in order, whatever other attributes the
\* anchors carry
AnchorUrls(text) ==
  LET starts == {i \in DOMAIN text : MatchAt(text, i, <<"<a", " ", "href=", DQ>>)}
  IN [k \in 1..Cardinality(starts) |->
        SubSeq(text, Kth(starts, k) + 4, FirstDQ(text, Kth(starts, k) + 4) - 1)]

SectionOf(content) ==
  IF HasCr(content) THEN _split_continue_reading(content).cr ELSE <<>>

\* C1: _write_to_disk is called only when the first QC pass found no blocking
\* issue in the whole batch and the final QC pass, after the fixes, found no
\* issue at all on any article; it is then given the entire batch; in every
\* other run no article of the batch is written.
C1_WriteOnlyWhenClean ==
  /\ pc = "PERSISTED" =>
       /\ \A k \in DOMAIN entry : QcAtEntry(k).blocking = <<>>
       /\ \A k \in DOMAIN articles : NoIssue(QcAgain(k))
       /\ written = articles
       /\ disk = ExistingSlugs \cup {articles[k].slug : k \in DOMAIN articles}
       /\ result = "True"
  /\ pc # "PERSISTED" => written = <<>> /\ disk = ExistingSlugs

\* a batch of several articles, some of them fixed, has been written
C1_Witness == pc = "PERSISTED" /\ Len(written) > 1 /\ fix_log # <<>>

\* C2: when the first QC pass finds a blocking issue on some article, the
\* pipeline stops before _editorial_fix: every article is as it was given,
\* nothing is written, and the result is False.
C2_BlockingAborts ==
  (pc \notin {"COLLECTED", "FIX_CALLED"} /\ \E k \in DOMAIN entry : QcAtEntry(k).blocking # <<>>) =>
    /\ pc \in {"QC_CHECKED", "ABORTED"}
    /\ pc = "ABORTED" => result = "False"
    /\ articles = entry
    /\ fix_runs = 0 /\ fix_log = <<>>
    /\ written = <<>> /\ disk = ExistingSlugs

\* a batch of several articles aborted on a blocking issue
C2_Witness ==
  /\ pc = "ABORTED" /\ result = "False" /\ Len(articles) > 1
  /\ \E k \in DOMAIN articles : QcAtEntry(k).blocking # <<>>

\* C3: a second run of _editorial_fix on the output of a first run changes no
\* field of any article and logs nothing.
C3_SecondRunChangesNothing ==
  (pc = "FIX_CALLED" /\ fix_runs = 2) => (articles = entry /\ fix_log = <<>>)

\* C4: after one run of _editorial_fix, the rendered title is at most
\* MAX_RENDERED_TITLE, the excerpt at most MAX_EXCERPT, the slug is lowercase
\* letters, digits and hyphens with no trailing slash, and _qc_one reports no
\* issue of title length, excerpt length or slug format.
C4_LengthsAndSlugFixed ==
  fix_runs >= 1 =>
    \A k \in DOMAIN articles :
      /\ Len(articles[k].title \o BRAND_SUFFIX) <= MAX_RENDERED_TITLE
      /\ Len(articles[k].excerpt) <= MAX_EXCERPT
      /\ \A j \in DOMAIN articles[k].slug :
           IsLowerAlnum(articles[k].slug[j]) \/ articles[k].slug[j] = "-"
      /\ Range(QcAgain(k).fixable)
           \cap {"title too long", "excerpt too long", "slug needs cleanup"} = {}

\* an article whose title, excerpt and slug all needed the fix has had it
C4_Witness ==
  /\ fix_runs = 1
  /\ \E k \in DOMAIN articles :
       /\ Len(entry[k].title \o BRAND_SUFFIX) > MAX_RENDERED_TITLE
       /\ Len(entry[k].excerpt) > MAX_EXCERPT
       /\ SlugNeedsCleanup(entry[k].slug)
       /\ articles[k].title # entry[k].title
       /\ articles[k].excerpt # entry[k].excerpt
       /\ articles[k].slug # entry[k].slug

\* C5: after one run of _editorial_fix over the batch, no title, excerpt or
\* content (a generated Continue Reading section included) holds a key of
\* MOJIBAKE_MAP, and _qc_one reports no mojibake issue.
C5_NoMojibakeAfterFix ==
  fix_runs = 1 =>
    \A k \in DOMAIN articles :
      /\ ~_has_mojibake(articles[k].title)
      /\ ~_has_mojibake(articles[k].excerpt)
      /\ ~_has_mojibake(articles[k].content)
      /\ Range(QcAgain(k).fixable)
           \cap {"content has mojibake characters", "title has mojibake characters",
                 "excerpt has mojibake characters"} = {}

\* C6: after one run of _editorial_fix, every external anchor of the content
\* carries noopener and noreferrer, so _qc_one reports no external-link issue.
C6_ExternalLinksHardened ==
  fix_runs = 1 =>
    \A k \in DOMAIN articles :
      /\ ~HasUnsafeExternalLink(articles[k].content)
      /\ "external link missing rel" \notin Range(QcAgain(k).fixable)

\* C7: after one run of _editorial_fix, the content has no <h1 tag and no
\* paragraph holding only whitespace, so _qc_one reports neither issue.
C7_NoH1NoEmptyParagraph ==
  fix_runs = 1 =>
    \A k \in DOMAIN articles :
      /\ "<h1" \notin Range(articles[k].content)
      /\ EmptyParagraphs(articles[k].content) = {}
      /\ Range(QcAgain(k).fixable) \cap {"content contains <h1>", "empty <p> tag(s)"} = {}

\* the link to an article
LinkOf(a) == <<ArticleUrl(a.slug), a.title>>

\* the hub link of article i, as a list of links
HubLinks(i) ==
  IF _get_hub_url(entry[i], hub_url) # None
  THEN << <<_get_hub_url(entry[i], hub_url), HUB_LABELS(_get_hub_url(entry[i], hub_url))>> >>
  ELSE <<>>

\* the links of a section generated from the batch as it was before the run
SnapshotLinks(i) ==
  LET siblings == Siblings(entry, i)
      first4 == SubSeq(siblings, 1, IF Len(siblings) < 4 THEN Len(siblings) ELSE 4)
  IN [k \in DOMAIN first4 |-> LinkOf(first4[k])] \o HubLinks(i)

\* C8: the sections generated in one run of _editorial_fix take every sibling
\* slug and title from the batch as it was before any article was changed,
\* whether the sibling comes before or after the article receiving the link.
C8_LinksFromOneSnapshot ==
  fix_runs = 1 =>
    \A i \in DOMAIN articles :
      (~HasCr(entry[i].content) /\ HasCr(articles[i].content)) =>
        CrLinksOf(articles[i].content) = SnapshotLinks(i)

\* the position of the j-th article of the batch other than article i
OtherThan(i, j) == IF j < i THEN j ELSE j + 1

\* the links of article i are count siblings in batch order, then the hub
SiblingsThenHub(i, links, count) ==
  /\ Len(links) = count + Len(HubLinks(i))
  /\ \A j \in 1..count :
       links[j] \in {LinkOf(entry[OtherThan(i, j)]), LinkOf(articles[OtherThan(i, j)])}
  /\ SubSeq(links, count + 1, Len(links)) = HubLinks(i)

\* C9: an article without a Continue Reading section, in a batch of n, gets a
\* section linking the first min(4, n-1) other articles in batch order and
\* then the hub if it has one; with no other article and no hub it gets none.
C9_SiblingsThenHub ==
  fix_runs = 1 =>
    \A i \in DOMAIN articles :
      ~HasCr(entry[i].content) =>
        IF Len(entry) = 1 /\ HubLinks(i) = <<>>
        THEN ~HasCr(articles[i].content)
        ELSE SiblingsThenHub(i, CrLinksOf(articles[i].content),
                             IF Len(entry) - 1 < 4 THEN Len(entry) - 1 ELSE 4)

\* the section has no link to the hub
LacksHub(section, hub) ==
  ~\E k \in DOMAIN AnchorUrls(section) : In(RStripSet(hub, {"/"}), AnchorUrls(section)[k])

\* C10: a Continue Reading section without the hub link is rebuilt with its
\* links in their order followed by the hub link, none dropped, the links
\* whose tags the external-link step rewrote included; a section that has the
\* hub link keeps its links.
C10_ExistingLinksKept ==
  fix_runs = 1 =>
    \A i \in DOMAIN articles :
      HasCr(entry[i].content) =>
        AnchorUrls(SectionOf(articles[i].content)) =
          AnchorUrls(SectionOf(entry[i].content))
            \o (IF HubLinks(i) # <<>> /\ LacksHub(SectionOf(entry[i].content), HubLinks(i)[1][1])
                THEN <<HubLinks(i)[1][1]>> ELSE <<>>)

\* C11: for links whose labels hold no markup, building the section, appending
\* it to a body, splitting and extracting gives the same links in the same
\* order; and split, build, split again gives the links of the first split.
C11_BuildSplitRoundTrip ==
  /\ call.fn = "build_split" => call.extracted = call.links
  /\ call.fn = "split_build_split" => call.second = call.first

\* C12: when _split_continue_reading finds a section, body + section is the
\* content, whitespace after the closing </ul> included, and the section is
\* the end of the content.
C12_SplitLossless ==
  (call.fn = "_split_continue_reading" /\ call.out.cr # None) =>
    call.out.body \o call.out.cr = call.content


\* the places of s where a whole sentence ends: a sentence end followed by
\* whitespace, and the end of the text
SentenceEnds(s) ==
  {e \in 1..Len(s) : e = Len(s) \/ (s[e] \in SentenceEnd /\ IsSpace(s[e + 1]))}

\* the first place from i on where whitespace follows a sentence end, and the
\* first place from i on that holds no whitespace; past the end if none
NextGap(s, i) ==
  Min({k \in i..Len(s) + 1 :
         k > Len(s) \/ (IsSpace(s[k]) /\ k > 1 /\ s[k - 1] \in SentenceEnd)})
NextText(s, i) == Min({k \in i..Len(s) + 1 : k > Len(s) \/ ~IsSpace(s[k])})

\* the sentences of s from place i on, joined by one space each
RECURSIVE Joined(_, _)
Joined(s, i) ==
  IF NextGap(s, i) > Len(s) THEN SubSeq(s, i, Len(s))
  ELSE SubSeq(s, i, NextGap(s, i) - 1) \o <<" ">> \o Joined(s, NextText(s, NextGap(s, i)))

\* the longest run of leading whole sentences of s that, joined, is at most
\* MAX_EXCERPT long; empty when the first sentence alone is longer
LongestRun(s) ==
  Joined(SubSeq(s, 1, Max({e \in SentenceEnds(s) :
                             Len(Joined(SubSeq(s, 1, e), 1)) <= MAX_EXCERPT})), 1)

\* C13: the excerpt step leaves an excerpt of at most MAX_EXCERPT characters
\* as it is; of a longer one it keeps the longest run of leading whole
\* sentences that fits in MAX_EXCERPT whenever that run has at least
\* MIN_EXCERPT characters; its result never has more than MAX_EXCERPT
C13_ExcerptWholeSentences ==
  call.fn = "_truncate_excerpt" =>
    /\ Len(call.out) <= MAX_EXCERPT
    /\ Len(call.excerpt) <= MAX_EXCERPT => call.out = call.excerpt
    /\ (Len(call.excerpt) > MAX_EXCERPT /\ Len(LongestRun(call.excerpt)) >= MIN_EXCERPT)
         => call.out = LongestRun(call.excerpt)

\* an excerpt of 200 characters in three sentences, cut to its first two
\* sentences, 140 characters
C13_Witness ==
  /\ call.fn = "_truncate_excerpt"
  /\ Len(call.excerpt) = 200
  /\ Cardinality(SentenceEnds(call.excerpt)) = 3
  /\ Len(call.out) = 140
  /\ call.out = SubSeq(call.excerpt, 1, 140)


\* the rendered title is longer than MAX_RENDERED_TITLE
RenderedTooLong(title) == Len(title) + Len(BRAND_SUFFIX) > MAX_RENDERED_TITLE

\* the text of the title before its last colon, without the whitespace around it
ColonBase(title) == Strip(SubSeq(title, 1, Max({i \in 1..Len(title) : title[i] = ":"}) - 1))

\* C14 as stated: a title too long when rendered and holding a colon is cut to
\* the base before the colon if the base has MIN_TITLE to MAX_TITLE_RAW
\* characters; the Fix Engine changes a title only when its rendered length
\* is over MAX_RENDERED_TITLE; the rendered length after it is at most
\* MAX_RENDERED_TITLE
C14_TitleChangedOnlyWhenTooLong ==
  /\ call.fn = "_truncate_title" =>
       /\ (/\ RenderedTooLong(call.title)
           /\ ":" \in Range(call.title)
           /\ Len(ColonBase(call.title)) \in MIN_TITLE..MAX_TITLE_RAW)
            => call.out = ColonBase(call.title)
       /\ ~RenderedTooLong(call.out)
  /\ call.fn = "_editorial_fix" =>
       /\ call.out # call.title => RenderedTooLong(call.title)
       /\ ~RenderedTooLong(call.out)

\* C14 amended: a title too long when rendered and holding a colon is cut by
\* the title step to the text before its last colon, whitespace around it
\* removed, if that base has MIN_TITLE to MAX_TITLE_RAW characters; the title
\* step changes a title only when its rendered length is over
\* MAX_RENDERED_TITLE; the rendered length after the title step, and after the
\* whole of _editorial_fix, is at most MAX_RENDERED_TITLE
C14_TitleStepOnlyWhenTooLong ==
  /\ call.fn = "_truncate_title" =>
       /\ (/\ RenderedTooLong(call.title)
           /\ ":" \in Range(call.title)
           /\ Len(ColonBase(call.title)) \in MIN_TITLE..MAX_TITLE_RAW)
            => call.out = ColonBase(call.title)
       /\ call.out # call.title => RenderedTooLong(call.title)
       /\ ~RenderedTooLong(call.out)
  /\ call.fn = "_editorial_fix" => ~RenderedTooLong(call.out)

\* a title rendered in 70 characters, an 18-character base before its colon,
\* cut to the base
C14_Witness ==
  /\ call.fn = "_truncate_title"
  /\ Len(call.title) + Len(BRAND_SUFFIX) = 70
  /\ call.title[19] = ":"
  /\ Len(call.out) = 18
  /\ call.out = SubSeq(call.title, 1, 18)


\* C15: when publish_articles writes the batch, no article is written under a
\* slug that a document on disk already had when the pipeline started
C15_NoWriteOverPersistedSlug ==
  pc = "PERSISTED" => \A k \in DOMAIN written : written[k].slug \notin ExistingSlugs


\* _qc_one on article k as _editorial_fix left it, with the collaborators of
\* the pass over the batch as it was given
QcAfterFix(k) == _qc_one(articles[k], hub_url, Slugs(entry), valid_urls, ExistingSlugs)

\* C16: an article on which _qc_one reports no blocking issue has none either
\* when _qc_one is run with the same collaborators after _editorial_fix; its
\* title then has at least MIN_TITLE characters and its excerpt at least
\* MIN_EXCERPT
C16_FixAddsNoBlockingIssue ==
  fix_runs >= 1 =>
    \A k \in DOMAIN articles :
      QcAtEntry(k).blocking = <<>> =>
        /\ QcAfterFix(k).blocking = <<>>
        /\ Len(articles[k].title) >= MIN_TITLE
        /\ Len(articles[k].excerpt) >= MIN_EXCERPT

====
